---------------------------- MODULE Spec2Model ----------------------------
(***************************************************************************)
(* The consumption statistics importer of ha-octopus-spain                *)
(* (custom_components/octopus_spain): the coordinator publishes a list of *)
(* hourly measurements per account; OctopusConsumptionStatisticsImporter   *)
(* turns it into cumulative points and hands them to the recorder's        *)
(* statistics store.  The importer of one series (one account) is         *)
(* modelled, and the coordinator's refresh over the accounts.              *)
(*                                                                         *)
(* Instants are natural numbers (UTC).  A timestamp string is its local    *)
(* reading and its offset; parsing gives local - off.  Values are integers *)
(* (a fixed-point reading of the decimal strings the API returns).         *)
(***************************************************************************)
EXTENDS Integers, Sequences, FiniteSets, TLC

\* ------------------------------------------------------------------ bounds
\* Instants a measurement may start at: 1..MaxStart.
MaxStart == 2
\* Longest measurement list of the single-cycle specification.
MaxLen == 2
\* _async_process_update coroutines alive at once.
MaxTasks == 2
\* Finished cycles the journal remembers.
JournalLen == 2
\* Last day of the clock.
MaxDay == 4
\* Refreshes of the coordinator per behaviour.
MaxPolls == 3
\* Days of a window whose fetch returns nothing in one refresh.
MaxFailedDays == 1
MaxAccounts == 2
MaxInstant == 2

\* ------------------------------------------------------- program constants
\* coordinator.py:39  start_day = today - timedelta(days=2)
WindowBack == 2

\* ------------------------------------------------------------- raw values
\* Python's None for an optional instant, and a present one.
NoStart == <<>>
SomeStart(t) == <<t>>

\* A raw "startAt" / "start": an ISO string (local reading, offset), a string
\* that is no timestamp, or null.
Iso(local, off) == [kind |-> "iso", local |-> local, off |-> off]
BadStr == [kind |-> "badstr", local |-> 0, off |-> 0]
Null == [kind |-> "null", local |-> 0, off |-> 0]

\* A raw "value" / "sum" / "state": a number (or numeric string), a string
\* that is no number, or null / absent.
Num(v) == [k |-> "num", v |-> v]
BadVal == [k |-> "bad", v |-> 0]
NoVal == [k |-> "none", v |-> 0]

Offsets == {0, 1}
Starts == 1..MaxStart
StartAts == {Iso(t + o, o) : t \in Starts, o \in Offsets} \cup {BadStr, Null}
Values == {Num(-1), Num(0), Num(1), BadVal, NoVal}

\* One record of hourly_consumption as lib/octopus_spain.py builds it.
Measurement(startAt, value) == [startAt |-> startAt, value |-> value]
RawRecords == {Measurement(s, v) : s \in StartAts, v \in Values}

RECURSIVE SeqsUpTo(_, _)
SeqsUpTo(S, n) ==
    IF n = 0 THEN {<<>>}
    ELSE LET shorter == SeqsUpTo(S, n - 1)
         IN  shorter \cup {Append(s, x) : s \in {q \in shorter : Len(q) = n - 1}, x \in S}

\* ----------------------------------------------------------- time parsing
\* dt_util.parse_datetime on a string: the datetime, or None.
ParseDatetime(s) ==
    IF s.kind = "iso" THEN [ok |-> TRUE, local |-> s.local, off |-> s.off]
    ELSE [ok |-> FALSE, local |-> 0, off |-> 0]

\* dt_util.as_utc: the same instant read in UTC.
AsUtc(dt) == dt.local - dt.off

\* _parse_dt(dt_str).  parse_datetime is a string parser: handed None (a null
\* startAt) it raises TypeError, which nothing catches before line 346.
ParseDt(s) ==
    IF s.kind = "null" THEN [k |-> "raise", t |-> 0]
    ELSE LET dt == ParseDatetime(s)
         IN  IF dt.ok THEN [k |-> "dt", t |-> AsUtc(dt)] ELSE [k |-> "none", t |-> 0]

\* float(Decimal(m["value"])): InvalidOperation / ValueError / TypeError are
\* caught per record.
ParseValue(v) ==
    IF v.k = "num" THEN [ok |-> TRUE, val |-> v.v] ELSE [ok |-> FALSE, val |-> 0]


\* ------------------------------------------------------ checkpoint reader
\* The raw "start" of a row as get_last_statistics returns it: a timestamp
\* number, a string, a datetime (naive or aware), or nothing usable.
RowStart(kind, local, off) == [kind |-> kind, local |-> local, off |-> off]

\* (a variant of the reading below that takes every datetime at its local
\* reading)
LastStartLocal(raw) ==
    IF raw.kind \in {"ts", "iso", "naive", "aware"} THEN SomeStart(raw.local) ELSE NoStart

\* sensor.py:212-223: last_start from last_point.get("start").
LastStartOf(raw) ==
    CASE raw.kind = "ts"     -> SomeStart(raw.local)
      [] raw.kind = "iso"    -> LET dt == ParseDatetime(Iso(raw.local, raw.off))
                                IN  IF dt.ok THEN SomeStart(AsUtc(dt)) ELSE NoStart
      [] raw.kind = "badstr" -> NoStart
      [] raw.kind = "naive"  -> SomeStart(raw.local)
      [] raw.kind = "aware"  -> SomeStart(AsUtc(raw))
      [] OTHER               -> NoStart

\* sensor.py:225-231: last_sum from "sum", else "state"; 0.0 when it is
\* absent, zero or no number.
LastSumOf(row) ==
    LET last_sum_raw == IF row.sum.k = "none" THEN row.state ELSE row.sum
    IN  IF last_sum_raw.k = "num" THEN last_sum_raw.v ELSE 0

\* (a variant of the test below that finds a value in every point)
HasSumOrState(row) == FALSE

\* sensor.py:233  the point has neither sum nor state.
LacksSumAndState(row) == row.sum.k = "none" /\ row.state.k = "none"

\* sensor.py:206-248: the resume cursor and running sum derived from the
\* answer of get_last_statistics (<<>> or <<row>>).
Checkpoint(last_points) ==
    IF last_points = <<>>
    THEN [last_start |-> NoStart, last_sum |-> 0]
    ELSE LET last_point == last_points[Len(last_points)]
         IN  IF LacksSumAndState(last_point)
             THEN [last_start |-> NoStart, last_sum |-> 0]
             ELSE [last_start |-> LastStartOf(last_point.raw),
                   last_sum |-> LastSumOf(last_point)]

\* ------------------------------------------------------------- normalizer
\* sensor.py:266-274: (start_utc, m) for every record whose startAt parses;
\* the others are counted.  A null startAt raises out of the loop.
RECURSIVE ParseMeasurements(_, _)
ParseMeasurements(measurements, acc) ==
    IF measurements = <<>> THEN acc
    ELSE LET m == Head(measurements)
             start_utc == ParseDt(m.startAt)
         IN  CASE start_utc.k = "raise" -> [acc EXCEPT !.raised = TRUE]
               [] start_utc.k = "none" ->
                    ParseMeasurements(Tail(measurements),
                        [acc EXCEPT !.skip_unparsed = @ + 1])
               [] OTHER ->
                    ParseMeasurements(Tail(measurements),
                        [acc EXCEPT !.parsed = Append(@, <<start_utc.t, m>>)])

\* Python's sorted(..., key=item[0]) is stable: an item goes behind every
\* item whose key is not larger.
RECURSIVE InsertByStart(_, _)
InsertByStart(sorted, item) ==
    IF sorted = <<>> THEN <<item>>
    ELSE IF item[1] < Head(sorted)[1] THEN <<item>> \o sorted
    ELSE <<Head(sorted)>> \o InsertByStart(Tail(sorted), item)

\* (a variant of the sort below that keeps the order of arrival)
ArrivalOrder(items, sorted) == sorted \o items

\* sensor.py:283  sorted_meas.
RECURSIVE SortedByStart(_, _)
SortedByStart(items, sorted) ==
    IF items = <<>> THEN sorted
    ELSE SortedByStart(Tail(items), InsertByStart(sorted, Head(items)))

\* ------------------------------------------------------------- aggregator
\* (a variant of the test below that lets the cursor's own start through)
AlreadyImportedLt(start_utc, last_start) ==
    last_start # NoStart /\ start_utc < last_start[1]

\* sensor.py:292  the measurement was committed by an earlier cycle.
AlreadyImported(start_utc, last_start) ==
    last_start # NoStart /\ start_utc <= last_start[1]

\* sensor.py:311-315  one entry of the batch.
StatisticPoint(start_utc, running_sum) ==
    [start |-> start_utc, state |-> running_sum, sum |-> running_sum]

\* sensor.py:291-315: the loop over sorted_meas.
RECURSIVE Aggregate(_, _, _)
Aggregate(sorted_meas, last_start, acc) ==
    IF sorted_meas = <<>> THEN acc
    ELSE LET start_utc == Head(sorted_meas)[1]
             m == Head(sorted_meas)[2]
             val == ParseValue(m.value)
         IN  CASE AlreadyImported(start_utc, last_start) ->
                    Aggregate(Tail(sorted_meas), last_start,
                        [acc EXCEPT !.skipped_already_imported = @ + 1])
               [] ~AlreadyImported(start_utc, last_start) /\ ~val.ok ->
                    Aggregate(Tail(sorted_meas), last_start,
                        [acc EXCEPT !.skipped_invalid_value = @ + 1])
               [] OTHER ->
                    Aggregate(Tail(sorted_meas), last_start,
                        [acc EXCEPT !.running_sum = @ + val.val,
                                    !.statistics = Append(@,
                                        StatisticPoint(start_utc, acc.running_sum + val.val))])

\* sensor.py:206-323: everything between the answer of get_last_statistics
\* and the decision to commit, as one result.
ProcessMeasurements(measurements, last_points) ==
    LET cp == Checkpoint(last_points)
        p == ParseMeasurements(measurements,
                 [parsed |-> <<>>, skip_unparsed |-> 0, raised |-> FALSE])
        sorted_meas == SortedByStart(p.parsed, <<>>)
        a == Aggregate(sorted_meas, cp.last_start,
                 [running_sum |-> cp.last_sum, statistics |-> <<>>,
                  skipped_already_imported |-> 0, skipped_invalid_value |-> 0])
    IN  IF p.raised
        THEN [raised |-> TRUE, last_start |-> cp.last_start, last_sum |-> cp.last_sum,
              statistics |-> <<>>, running_sum |-> cp.last_sum, skip_unparsed |-> 0,
              skipped_already_imported |-> 0, skipped_invalid_value |-> 0]
        ELSE [raised |-> FALSE, last_start |-> cp.last_start, last_sum |-> cp.last_sum,
              statistics |-> a.statistics, running_sum |-> a.running_sum,
              skip_unparsed |-> p.skip_unparsed,
              skipped_already_imported |-> a.skipped_already_imported,
              skipped_invalid_value |-> a.skipped_invalid_value]

\* ------------------------------------------------------- statistics store
\* The row the recorder keeps for a point the importer hands it.
StoredRow(point) ==
    [start |-> point.start, raw |-> RowStart("ts", point.start, 0),
     sum |-> Num(point.sum), state |-> Num(point.state)]

\* The most recent row of the series.
GetLastStatistics(st) ==
    IF st = {} THEN <<>>
    ELSE <<CHOOSE r \in st : \A q \in st : q.start <= r.start>>

\* A row handed back with its start only.
StartOnly(row) == [row EXCEPT !.sum = NoVal, !.state = NoVal]

\* sensor.py:201-203  get_last_statistics(hass, 1, statistic_id, True, set()).
\* The last argument names the statistic types the caller wants, and it is
\* the empty set: the recorder hands the most recent row back with its sum
\* and state, or with its start only.
LastStatisticsAnswers(st) ==
    IF st = {} THEN {<<>>}
    ELSE {GetLastStatistics(st), <<StartOnly(GetLastStatistics(st)[1])>>}

\* (a variant of the write below that stores the first point of the batch
\* only)
AddFirstPoint(st, statistics) ==
    IF statistics = <<>> THEN st
    ELSE {r \in st : r.start # Head(statistics).start} \cup {StoredRow(Head(statistics))}

\* sensor.py:333-337, 346: async_add_external_statistics raises; nothing of
\* the batch is stored.
RejectedBatch(st, statistics) == st

\* async_add_external_statistics: one row per start; a point whose start is
\* already stored replaces that row.
RECURSIVE AddExternalStatistics(_, _)
AddExternalStatistics(st, statistics) ==
    IF statistics = <<>> THEN st
    ELSE LET point == Head(statistics)
         IN  AddExternalStatistics(
                 {r \in st : r.start # point.start} \cup {StoredRow(point)},
                 Tail(statistics))


\* ------------------------------------------------------------------ state
VARIABLES
    today,      \* the clock: the current UTC day
    polls,      \* the refreshes the coordinator made
    upstream,   \* what the API holds for each day (a list of records)
    coordData,  \* coordinator.data[account]["hourly_consumption"]
    listener,   \* the importer's subscription: none, setup, added, removed
    tasks,      \* the _async_process_update coroutines that are alive
    store,      \* the rows of the series in the statistics store
    journal,    \* history: what the last finished cycles logged, latest last
    selfData,   \* the coordinator's self._data, an entry per account
    accountsData,  \* coordinator.data, what the last successful refresh returned
    lastRefresh,   \* history: how the last refresh went
    token,      \* the API client's self._token: none, or the token of a login
    lastCall,   \* history: the last call of hourly_consumption
    flow,       \* the configuration (or options) flow handler
    entry       \* the configuration the flows have saved

accountVars == <<selfData, accountsData, lastRefresh>>
apiVars == <<token, lastCall>>
flowVars == <<flow, entry>>
\* What lies outside one importer.
outsideVars == <<accountVars, apiVars, flowVars>>
vars == <<today, polls, upstream, coordData, listener, tasks, store, journal,
          selfData, accountsData, lastRefresh, token, lastCall, flow, entry>>

\* The API client and the flows where a specification leaves them out.
NoCall == [made |-> FALSE]
ApiUnused == token = "none" /\ lastCall = NoCall
NoFlow == [kind |-> "none"]
FlowUnused == flow = NoFlow /\ entry = <<>>

Days == 1..MaxDay
Tasks == 1..MaxTasks

\* No coroutine.  pc of a coroutine: read (waiting at line 201), commit
\* (waiting at line 333/335), done (returned).  error: the exception line 346
\* logged: none, read (get_last_statistics), parse (a null startAt), commit
\* (async_add_external_statistics); cancelled marks a coroutine that the host
\* tore down while it was waiting.
IdleTask ==
    [pc |-> "idle", measurements |-> <<>>, last_points |-> <<>>,
     last_start |-> NoStart, last_sum |-> 0, statistics |-> <<>>, running_sum |-> 0,
     skip_unparsed |-> 0, skipped_already_imported |-> 0, skipped_invalid_value |-> 0,
     error |-> "none"]

\* (a variant of the step below that parses the list before it asks the
\* store)
StartCycleParsed(data) ==
    [IdleTask EXCEPT !.pc = IF data = <<>> THEN "done" ELSE "read",
                     !.measurements = data,
                     !.skip_unparsed = Len(SelectSeq(data, LAMBDA m : m.startAt = BadStr))]

\* (a variant of the step below without the early return of line 192)
StartCycleAlways(data) == [IdleTask EXCEPT !.pc = "read", !.measurements = data]

\* sensor.py:181-203: the coroutine up to its first await.  Without
\* measurements it returns; otherwise it waits for get_last_statistics.
StartCycle(data) ==
    [IdleTask EXCEPT !.pc = IF data = <<>> THEN "done" ELSE "read",
                     !.measurements = data]

HasIdle == \E t \in Tasks : tasks[t].pc = "idle"
NextTask == CHOOSE t \in Tasks : tasks[t].pc = "idle" /\ \A u \in Tasks : u < t => tasks[u].pc # "idle"

\* A coroutine that returned is gone.
Alive(task) == IF task.pc = "done" THEN IdleTask ELSE task

\* sensor.py:168-169: async_setup subscribes once its own cycle has returned.
ListenerAfter(task) ==
    IF listener = "setup" /\ task.pc = "done" THEN "added" ELSE listener

\* -------------------------------------------------------------- importer
\* sensor.py:166-169  async_setup: the initial sync.
AsyncSetup ==
    /\ listener = "none"
    /\ HasIdle
    /\ LET task == StartCycle(coordData)
       IN  /\ tasks' = [tasks EXCEPT ![NextTask] = Alive(task)]
           /\ listener' = IF task.pc = "done" THEN "added" ELSE "setup"
    /\ UNCHANGED <<today, polls, upstream, coordData, store>>

\* sensor.py:171-175  close.
Close ==
    /\ listener = "added"
    /\ listener' = "removed"
    /\ UNCHANGED <<today, polls, upstream, coordData, tasks, store>>

\* sensor.py:201-344: get_last_statistics answers; checkpoint, parsing,
\* sorting and aggregation follow without a suspension.  With points to
\* commit the coroutine waits for the store, otherwise it returns.  An
\* exception (a null startAt) ends it at line 346.
Resumed(task, last_points, r) ==
    [task EXCEPT
        !.pc = IF ~r.raised /\ r.statistics # <<>> THEN "commit" ELSE "done",
        !.last_points = last_points,
        !.last_start = r.last_start,
        !.last_sum = r.last_sum,
        !.statistics = r.statistics,
        !.running_sum = r.running_sum,
        !.skip_unparsed = r.skip_unparsed,
        !.skipped_already_imported = r.skipped_already_imported,
        !.skipped_invalid_value = r.skipped_invalid_value,
        !.error = IF r.raised THEN "parse" ELSE "none"]

\* (a variant of the step below that reads the coordinator's list again when
\* the coroutine resumes)
AfterReadLive(task, last_points) ==
    Resumed(task, last_points, ProcessMeasurements(coordData, last_points))

\* sensor.py:184, 266: the coroutine works on the list it took at line 184.
AfterRead(task, last_points) ==
    Resumed(task, last_points, ProcessMeasurements(task.measurements, last_points))

\* The coroutine of slot t as each step leaves it.
ReadOutcome(t, last_points) == AfterRead(tasks[t], last_points)
\* (a variant of the outcome below that logs the exception and goes on as if
\* the store had no row)
ReadAsEmpty(t) == [AfterRead(tasks[t], <<>>) EXCEPT !.error = "read"]

ReadFailOutcome(t) == [tasks[t] EXCEPT !.pc = "done", !.error = "read"]
CommitOutcome(t) == [tasks[t] EXCEPT !.pc = "done"]
CommitFailOutcome(t) == [tasks[t] EXCEPT !.pc = "done", !.error = "commit"]

ReadDone(t, last_points) ==
    /\ tasks[t].pc = "read"
    /\ last_points \in LastStatisticsAnswers(store)
    /\ tasks' = [tasks EXCEPT ![t] = Alive(ReadOutcome(t, last_points))]
    /\ listener' = ListenerAfter(ReadOutcome(t, last_points))
    /\ UNCHANGED <<today, polls, upstream, coordData, store>>

\* sensor.py:201, 346-347: get_last_statistics raises.
ReadFail(t) ==
    /\ tasks[t].pc = "read"
    /\ tasks' = [tasks EXCEPT ![t] = Alive(ReadFailOutcome(t))]
    /\ listener' = ListenerAfter(ReadFailOutcome(t))
    /\ UNCHANGED <<today, polls, upstream, coordData, store>>

\* sensor.py:325-342: the store takes the batch.
CommitDone(t) ==
    /\ tasks[t].pc = "commit"
    /\ store' = AddExternalStatistics(store, tasks[t].statistics)
    /\ tasks' = [tasks EXCEPT ![t] = Alive(CommitOutcome(t))]
    /\ listener' = ListenerAfter(CommitOutcome(t))
    /\ UNCHANGED <<today, polls, upstream, coordData>>

\* sensor.py:333-337, 346-347: the store rejects the batch.
CommitFail(t) ==
    /\ tasks[t].pc = "commit"
    /\ tasks' = [tasks EXCEPT ![t] = Alive(CommitFailOutcome(t))]
    /\ listener' = ListenerAfter(CommitFailOutcome(t))
    /\ store' = RejectedBatch(store, tasks[t].statistics)
    /\ UNCHANGED <<today, polls, upstream, coordData>>

\* ----------------------------------------------------------- coordinator
\* lib/octopus_spain.py:63-201 as the coordinator sees it: the records of one
\* day, or [] (an error, or nothing there).
DayRecords(d) == IF d \in Days THEN upstream[d] ELSE <<>>

\* coordinator.py:38-49: the days today-2 .. today, each day's answer
\* appended when it is not empty.
RECURSIVE FetchDays(_, _, _)
FetchDays(day_cursor, last_day, answered) ==
    IF day_cursor > last_day THEN <<>>
    ELSE (IF day_cursor \in answered THEN DayRecords(day_cursor) ELSE <<>>)
         \o FetchDays(day_cursor + 1, last_day, answered)

WindowDays == (today - WindowBack)..today

\* The sets of days that answer in one refresh.
Answered == {a \in SUBSET WindowDays : Cardinality(WindowDays \ a) <= MaxFailedDays}

\* (a variant of the outcome below in which a notification creates no task)
NotifyDropped(data) == IdleTask

\* The coroutine a notification creates, as its first step leaves it.
NotifyOutcome(data) == IF listener = "added" THEN StartCycle(data) ELSE IdleTask

\* update_coordinator notifies its listeners; sensor.py:177-179
\* _schedule_update creates a task, which runs to its first await.
Notify(data) ==
    IF listener = "added"
    THEN /\ HasIdle
         /\ tasks' = [tasks EXCEPT ![NextTask] = Alive(NotifyOutcome(data))]
         /\ listener' = listener
    ELSE UNCHANGED <<tasks, listener>>

\* coordinator.py:30-52 with a successful login: a refresh at today.
CoordinatorUpdate(answered) ==
    /\ polls < MaxPolls
    /\ polls' = polls + 1
    /\ answered \subseteq WindowDays
    /\ coordData' = FetchDays(today - WindowBack, today, answered)
    /\ Notify(coordData')
    /\ UNCHANGED <<today, upstream, store>>

\* coordinator.py:31, 52: the login fails and the old data is returned.
CoordinatorLoginFailed ==
    /\ polls < MaxPolls
    /\ polls' = polls + 1
    /\ coordData' = coordData
    /\ Notify(coordData)
    /\ UNCHANGED <<today, upstream, store>>

\* Midnight.
Tick ==
    /\ today < MaxDay
    /\ today' = today + 1
    /\ UNCHANGED <<polls, upstream, coordData, listener, tasks, store>>

\* ---------------------------------------------------------------- journal
\* sensor.py:317-347: a cycle that returns has logged its counts, its batch
\* and its running sum, or its exception.  The journal keeps the last ones.
LastEntries(j) == IF Len(j) > JournalLen THEN Tail(j) ELSE j

Journal(outcome) ==
    journal' = IF outcome.pc = "done" THEN LastEntries(Append(journal, outcome))
               ELSE journal

\* ------------------------------------------------------------ environment
\* What the API holds for day d: one hourly record (a day it does not answer
\* for is a day whose fetch returns []).
DayValues == {Num(1), Num(2)}
DayList(d, v) == <<Measurement(Iso(d, 0), v)>>

\* The API's holdings: one value on odd days, one on even days.
Upstreams ==
    {[d \in Days |-> DayList(d, IF d % 2 = 1 THEN odd ELSE even)] :
        odd \in DayValues, even \in DayValues}

\* A row as an earlier run, an earlier release or another writer left it.
Row(start, raw, sum, state) == [start |-> start, raw |-> raw, sum |-> sum, state |-> state]

\* The ways the store hands back the start of a row that is at instant c.
RowStartsOf(c) ==
    {RowStart("ts", c, 0), RowStart("naive", c, 0), RowStart("badstr", 0, 0),
     RowStart("absent", 0, 0)}
    \cup {RowStart(k, c + o, o) : k \in {"iso", "aware"}, o \in Offsets}

\* The (sum, state) pairs a row may carry.
SumStates ==
    {<<Num(3), Num(3)>>, <<NoVal, Num(3)>>, <<NoVal, NoVal>>, <<BadVal, Num(3)>>,
     <<BadVal, NoVal>>, <<Num(0), Num(3)>>}

\* The stores the importer itself may have left: empty, or with a last row.
OwnStores == {{}} \cup {{Row(c, RowStart("ts", c, 0), Num(3), Num(3))} : c \in Starts}

\* The stores a cycle may find: its own, or with a last row of any shape.
InitStores ==
    OwnStores
    \cup {{Row(1, raw, ss[1], ss[2])} : raw \in RowStartsOf(1), ss \in SumStates}

NoTasks == [t \in Tasks |-> IdleTask]
NoCycleRunning == tasks = NoTasks

\* __init__.py:17-31, sensor.py:40-41, 56-63: the host went down while the
\* coroutine of slot t was waiting, and the entry is set up again: a new
\* coordinator makes its first refresh, a new importer is constructed.
\* Nothing in memory survives; the store does.
TornDown(t) == [tasks[t] EXCEPT !.pc = "done", !.error = "cancelled"]

Restart(t, answered) ==
    /\ tasks[t].pc \in {"read", "commit"}
    /\ polls < MaxPolls
    /\ polls' = polls + 1
    /\ answered \subseteq WindowDays
    /\ coordData' = FetchDays(today - WindowBack, today, answered)
    /\ tasks' = NoTasks
    /\ listener' = "none"
    /\ UNCHANGED <<today, upstream, store>>

\* --------------------------------------------------------------- accounts
\* lib/octopus_spain.py:44-61 accounts(): the account numbers, in the order
\* the API lists them.  The modelled importer is the one of the first.
Accounts == 1..MaxAccounts
OwnAccount == 1

\* coordinator.py:35-51: the entry of an account in the dictionary (of its
\* fields only the hourly list matters here), or no entry.
NoEntry == [present |-> FALSE, hourly_consumption |-> <<>>]
Entry(hourly_consumption) == [present |-> TRUE, hourly_consumption |-> hourly_consumption]
EmptyDict == [a \in Accounts |-> NoEntry]

\* How the calls of one refresh go.  login() returns True or False or raises
\* (lib:22-42, execute_async is not guarded); accounts() returns the list or
\* raises (lib:44-61); for an account, account() returns or raises
\* (lib:227-232), and hourly_consumption returns the records, returns []
\* (lib:103-190) or raises (lib:149, execute_async is not guarded).  A call
\* the refresh does not reach is listed as ok.
AllOk == [login |-> "ok", accounts |-> "ok", account |-> [a \in Accounts |-> "ok"]]
AccountOutcomes == {"ok", "no_data", "account_raises", "hourly_raises"}
RefreshOutcomes ==
    {[AllOk EXCEPT !.login = "failed"], [AllOk EXCEPT !.login = "raises"],
     [AllOk EXCEPT !.accounts = "raises"]}
    \cup {[AllOk EXCEPT !.account = f] : f \in [Accounts -> AccountOutcomes]}

\* coordinator.py:34-51: the loop over the accounts, from account on, filling
\* dict; an exception leaves the loop and the function.
RECURSIVE AccountLoop(_, _, _)
AccountLoop(account, outcome, dict) ==
    IF account > MaxAccounts THEN [raised |-> FALSE, selfData |-> dict]
    ELSE IF outcome.account[account] \in {"account_raises", "hourly_raises"}
    THEN [raised |-> TRUE, selfData |-> dict]
    ELSE AccountLoop(account + 1, outcome,
             [dict EXCEPT ![account] =
                 Entry(FetchDays(today - WindowBack, today,
                                 IF outcome.account[account] = "ok"
                                 THEN WindowDays ELSE {}))])

\* coordinator.py:30-52  _async_update_data: what it leaves in self._data and
\* whether it raised; when it did not, self._data is what it returned.
AsyncUpdateData(outcome) ==
    IF outcome.login = "raises" THEN [raised |-> TRUE, selfData |-> selfData]
    ELSE IF outcome.login = "failed" THEN [raised |-> FALSE, selfData |-> selfData]
    ELSE IF outcome.accounts = "raises" THEN [raised |-> TRUE, selfData |-> EmptyDict]
    ELSE AccountLoop(1, outcome, EmptyDict)

\* sensor.py:184: coordinator.data[self._account].get("hourly_consumption", []);
\* without an entry for the account the subscript raises KeyError, which
\* line 346 logs.
HourlyOf(dict) ==
    IF dict[OwnAccount].present THEN dict[OwnAccount].hourly_consumption ELSE <<>>

AccountCycle(dict) ==
    IF dict[OwnAccount].present THEN StartCycle(dict[OwnAccount].hourly_consumption)
    ELSE [IdleTask EXCEPT !.pc = "done", !.error = "key"]

\* The coroutine a refresh starts: update_coordinator notifies the listeners
\* when _async_update_data returned, and may notify them when it raised.
RefreshCycle(outcome, notify) ==
    IF ~AsyncUpdateData(outcome).raised THEN AccountCycle(AsyncUpdateData(outcome).selfData)
    ELSE IF notify THEN AccountCycle(accountsData)
    ELSE IdleTask

\* A refresh over the accounts (coordinator.py:30-52 inside
\* update_coordinator's refresh): what _async_update_data returns becomes
\* coordinator.data; when it raises, coordinator.data stays.
AccountsRefresh(outcome, notify) ==
    /\ listener = "added"
    /\ NoCycleRunning
    /\ polls < MaxPolls
    /\ polls' = polls + 1
    /\ selfData' = AsyncUpdateData(outcome).selfData
    /\ accountsData' = IF AsyncUpdateData(outcome).raised THEN accountsData
                       ELSE AsyncUpdateData(outcome).selfData
    /\ lastRefresh' = [outcome |-> outcome,
                       raised |-> AsyncUpdateData(outcome).raised,
                       day |-> today]
    /\ coordData' = HourlyOf(accountsData')
    /\ tasks' = [tasks EXCEPT ![NextTask] = Alive(RefreshCycle(outcome, notify))]
    /\ UNCHANGED <<today, upstream, listener, store>>

\* The specifications of one importer leave the dictionary out.
NoRefresh == [outcome |-> AllOk, raised |-> FALSE, day |-> 0]
OneAccount ==
    /\ selfData = EmptyDict
    /\ accountsData = EmptyDict
    /\ lastRefresh = NoRefresh

\* ---------------------------------------------------------- specifications
\* The integration after async_setup_entry's first refresh: a fresh store,
\* the coordinator holding the first window, the importer constructed.
\* Refreshes, store answers and the clock interleave freely.
Init ==
    /\ today = 1 + WindowBack
    /\ polls = 0
    /\ upstream \in Upstreams
    /\ \E answered \in Answered :
          coordData = FetchDays(today - WindowBack, today, answered)
    /\ listener = "none"
    /\ tasks = NoTasks
    /\ store = {}
    /\ journal = <<>>
    /\ OneAccount
    /\ ApiUnused
    /\ FlowUnused

Next ==
    \/ AsyncSetup /\ UNCHANGED journal /\ UNCHANGED outsideVars
    \/ Close /\ UNCHANGED journal /\ UNCHANGED outsideVars
    \/ \E t \in Tasks : \E last_points \in LastStatisticsAnswers(store) :
           ReadDone(t, last_points) /\ UNCHANGED journal /\ UNCHANGED outsideVars
    \/ \E t \in Tasks : ReadFail(t) /\ UNCHANGED journal /\ UNCHANGED outsideVars
    \/ \E t \in Tasks : CommitDone(t) /\ UNCHANGED journal /\ UNCHANGED outsideVars
    \/ \E t \in Tasks : CommitFail(t) /\ UNCHANGED journal /\ UNCHANGED outsideVars
    \/ \E answered \in Answered :
           CoordinatorUpdate(answered) /\ UNCHANGED journal /\ UNCHANGED outsideVars
    \/ CoordinatorLoginFailed /\ UNCHANGED journal /\ UNCHANGED outsideVars
    \/ Tick /\ UNCHANGED journal /\ UNCHANGED outsideVars

Spec == Init /\ [][Next]_vars

\* One cycle, the initial sync of async_setup, over any measurement list and
\* any store it may find; the journal records how it ended.
InitSetup ==
    /\ today = 1 + WindowBack
    /\ polls = 0
    /\ upstream = [d \in Days |-> <<>>]
    /\ coordData \in SeqsUpTo(RawRecords, MaxLen)
    /\ listener = "none"
    /\ tasks = NoTasks
    /\ store \in InitStores
    /\ journal = <<>>
    /\ OneAccount
    /\ ApiUnused
    /\ FlowUnused

NextSetup ==
    \/ AsyncSetup /\ Journal(StartCycle(coordData)) /\ UNCHANGED outsideVars
    \/ \E t \in Tasks : \E last_points \in LastStatisticsAnswers(store) :
           ReadDone(t, last_points) /\ Journal(ReadOutcome(t, last_points)) /\ UNCHANGED outsideVars
    \/ \E t \in Tasks : ReadFail(t) /\ Journal(ReadFailOutcome(t)) /\ UNCHANGED outsideVars
    \/ \E t \in Tasks : CommitDone(t) /\ Journal(CommitOutcome(t)) /\ UNCHANGED outsideVars
    \/ \E t \in Tasks : CommitFail(t) /\ Journal(CommitFailOutcome(t)) /\ UNCHANGED outsideVars

SpecSetup == InitSetup /\ [][NextSetup]_vars

\* Cycles one after the other over windows that slide with the clock: every
\* refresh is complete and comes when no cycle is running, the store answers
\* every call; the journal records the cycles.
InitOverlap ==
    /\ today = 1 + WindowBack
    /\ polls = 0
    /\ upstream \in Upstreams
    /\ coordData = FetchDays(today - WindowBack, today, (today - WindowBack)..today)
    /\ listener = "none"
    /\ tasks = NoTasks
    /\ store \in InitStores
    /\ journal = <<>>
    /\ OneAccount
    /\ ApiUnused
    /\ FlowUnused

NextOverlap ==
    \/ AsyncSetup /\ Journal(StartCycle(coordData)) /\ UNCHANGED outsideVars
    \/ \E t \in Tasks : \E last_points \in LastStatisticsAnswers(store) :
           ReadDone(t, last_points) /\ Journal(ReadOutcome(t, last_points)) /\ UNCHANGED outsideVars
    \/ \E t \in Tasks : CommitDone(t) /\ Journal(CommitOutcome(t)) /\ UNCHANGED outsideVars
    \/ /\ NoCycleRunning
       /\ CoordinatorUpdate(WindowDays)
       /\ Journal(NotifyOutcome(coordData')) /\ UNCHANGED outsideVars
    \/ Tick /\ UNCHANGED journal /\ UNCHANGED outsideVars

SpecOverlap == InitOverlap /\ [][NextOverlap]_vars

\* Cycles one after the other with everything that can go wrong: a refresh
\* comes when no cycle is running, days may fail to answer, the login may
\* fail, the store may raise on the read or on the write, the host may go
\* down under a waiting cycle and come up again; the journal records the
\* cycles.
InitRecovery ==
    /\ today = 1 + WindowBack
    /\ polls = 0
    /\ upstream \in Upstreams
    /\ coordData = FetchDays(today - WindowBack, today, (today - WindowBack)..today)
    /\ listener = "none"
    /\ tasks = NoTasks
    /\ store \in OwnStores
    /\ journal = <<>>
    /\ OneAccount
    /\ ApiUnused
    /\ FlowUnused

NextRecovery ==
    \/ AsyncSetup /\ Journal(StartCycle(coordData)) /\ UNCHANGED outsideVars
    \/ \E t \in Tasks : \E last_points \in LastStatisticsAnswers(store) :
           ReadDone(t, last_points) /\ Journal(ReadOutcome(t, last_points)) /\ UNCHANGED outsideVars
    \/ \E t \in Tasks : ReadFail(t) /\ Journal(ReadFailOutcome(t)) /\ UNCHANGED outsideVars
    \/ \E t \in Tasks : CommitDone(t) /\ Journal(CommitOutcome(t)) /\ UNCHANGED outsideVars
    \/ \E t \in Tasks : CommitFail(t) /\ Journal(CommitFailOutcome(t)) /\ UNCHANGED outsideVars
    \/ \E answered \in Answered :
           /\ NoCycleRunning
           /\ CoordinatorUpdate(answered)
           /\ Journal(NotifyOutcome(coordData')) /\ UNCHANGED outsideVars
    \/ /\ NoCycleRunning
       /\ CoordinatorLoginFailed
       /\ Journal(NotifyOutcome(coordData)) /\ UNCHANGED outsideVars
    \/ \E t \in Tasks : Restart(t, WindowDays) /\ Journal(TornDown(t)) /\ UNCHANGED outsideVars
    \/ Tick /\ UNCHANGED journal /\ UNCHANGED outsideVars

SpecRecovery == InitRecovery /\ [][NextRecovery]_vars

\* The coordinator's refreshes over the accounts, with the importer of the
\* first account: setup after a complete first refresh, then refreshes in
\* which any call may fail, each followed by the importer's cycle.
InitAccounts ==
    /\ today = 1 + WindowBack
    /\ polls = 0
    /\ upstream \in Upstreams
    /\ selfData = [a \in Accounts |->
                      Entry(FetchDays(today - WindowBack, today, (today - WindowBack)..today))]
    /\ accountsData = selfData
    /\ lastRefresh = [outcome |-> AllOk, raised |-> FALSE, day |-> today]
    /\ coordData = HourlyOf(accountsData)
    /\ listener = "none"
    /\ tasks = NoTasks
    /\ store = {}
    /\ journal = <<>>
    /\ ApiUnused
    /\ FlowUnused

NextAccounts ==
    \/ AsyncSetup /\ Journal(StartCycle(coordData)) /\ UNCHANGED outsideVars
    \/ \E t \in Tasks : \E last_points \in LastStatisticsAnswers(store) :
           ReadDone(t, last_points) /\ Journal(ReadOutcome(t, last_points))
               /\ UNCHANGED outsideVars
    \/ \E t \in Tasks : CommitDone(t) /\ Journal(CommitOutcome(t)) /\ UNCHANGED outsideVars
    \/ \E outcome \in RefreshOutcomes : \E notify \in BOOLEAN :
           AccountsRefresh(outcome, notify) /\ Journal(RefreshCycle(outcome, notify))
               /\ UNCHANGED <<apiVars, flowVars>>
    \/ Tick /\ UNCHANGED journal /\ UNCHANGED outsideVars

SpecAccounts == InitAccounts /\ [][NextAccounts]_vars

\* ----------------------------------------------------- hourly_consumption
\* The start and end arguments of hourly_consumption: None, a naive datetime
\* or an aware one (its local reading and its offset).
NoDate == [kind |-> "none", local |-> 0, off |-> 0]
DateArgs ==
    {NoDate}
    \cup {[kind |-> "naive", local |-> t, off |-> 0] : t \in 0..MaxInstant}
    \cup {[kind |-> "aware", local |-> t + o, off |-> o] :
              t \in 0..MaxInstant, o \in Offsets \ {0}}

\* lib/octopus_spain.py:121  the default start lies ten days back.
DefaultBack == 10

\* lib/octopus_spain.py:114-118, 120-125: a naive bound is taken as UTC, an
\* aware one is converted; without an end the window ends at the midnight
\* after now, without a start it begins DefaultBack days before today.
AsTz(dt) == IF dt.kind = "naive" THEN dt.local ELSE dt.local - dt.off
EndLocal(end) == IF end.kind = "none" THEN today + 1 ELSE AsTz(end)
StartLocal(start) == IF start.kind = "none" THEN today - DefaultBack ELSE AsTz(start)

\* (a variant of the test below that lets an empty window through)
BackwardsOnly(start_local, end_local) == start_local > end_local

\* lib/octopus_spain.py:127  if start_local >= end_local.
InvalidWindow(start_local, end_local) == start_local >= end_local

\* lib/octopus_spain.py:141-149: the request for the window.
MeasurementsRequest(start_utc, end_utc) ==
    [query |-> "getMeasurements", startAt |-> start_utc, endAt |-> end_utc]
LoginRequest == [query |-> "obtainKrakenToken", startAt |-> 0, endAt |-> 0]

\* lib/octopus_spain.py:150-201: what the API holds for the days of the
\* window.
RecordsBetween(start_utc, end_utc) == FetchDays(start_utc, end_utc - 1, start_utc..(end_utc - 1))

\* lib/octopus_spain.py:63-201  hourly_consumption(account, start, end) for a
\* client with or without a token: the requests it sends, how it ends, what
\* it returns and the token it leaves.  login: how a login goes if one is
\* made (ok, failed, raises); answer: how the measurements request goes
\* (data, errors, raises).
HourlyConsumption(start, end, login, answer) ==
    LET logs_in == token = "none"
        sent == IF logs_in THEN <<LoginRequest>> ELSE <<>>
        start_local == StartLocal(start)
        end_local == EndLocal(end)
        call == [made |-> TRUE, start |-> start, end |-> end, now |-> today,
                 had_token |-> ~logs_in, login |-> IF logs_in THEN login ELSE "none",
                 requests |-> sent, ended |-> "returned", result |-> <<>>,
                 token |-> token]
    IN  IF logs_in /\ login = "raises" THEN [call EXCEPT !.ended = "raised"]
        ELSE IF logs_in /\ login = "failed" THEN call
        ELSE IF InvalidWindow(start_local, end_local) THEN [call EXCEPT !.token = "token"]
        ELSE LET asked == [call EXCEPT
                              !.token = "token",
                              !.requests = Append(sent, MeasurementsRequest(start_local, end_local))]
             IN  CASE answer = "raises" -> [asked EXCEPT !.ended = "raised"]
                   [] answer = "errors" -> asked
                   [] OTHER -> [asked EXCEPT !.result = RecordsBetween(start_local, end_local)]

\* One call of hourly_consumption.
CallHourlyConsumption(start, end, login, answer) ==
    /\ lastCall' = [HourlyConsumption(start, end, login, answer) EXCEPT !.token = token]
    /\ token' = HourlyConsumption(start, end, login, answer).token
    /\ UNCHANGED <<today, polls, upstream, coordData, listener, tasks, store, journal>>
    /\ UNCHANGED <<accountVars, flowVars>>

\* lib/octopus_spain.py:16-20: a new client has no token.
NewClient ==
    /\ token # "none"
    /\ token' = "none"
    /\ UNCHANGED <<today, polls, upstream, coordData, listener, tasks, store, journal, lastCall>>
    /\ UNCHANGED <<accountVars, flowVars>>

\* Calls of hourly_consumption with any window, on a client that may or may
\* not hold a token, as the clock moves.
InitWindow ==
    /\ today = 1 + WindowBack
    /\ polls = 0
    /\ upstream \in Upstreams
    /\ coordData = <<>>
    /\ listener = "none"
    /\ tasks = NoTasks
    /\ store = {}
    /\ journal = <<>>
    /\ OneAccount
    /\ ApiUnused
    /\ FlowUnused

NextWindow ==
    \/ \E start, end \in DateArgs :
       \E login \in IF token = "none" THEN {"ok", "failed", "raises"} ELSE {"ok"} :
       \E answer \in {"data", "errors", "raises"} :
           CallHourlyConsumption(start, end, login, answer)
    \/ NewClient
    \/ Tick /\ UNCHANGED journal /\ UNCHANGED outsideVars

SpecWindow == InitWindow /\ [][NextWindow]_vars


\* ------------------------------------------------------------- the flows
importerVars == <<today, polls, upstream, coordData, listener, tasks, store, journal>>

\* const.py:10, config_flow.py:38-39.
AUTH_OPTIONS == <<"username/password", "apikey">>
AUTH_TYPE_CREDENTIALS == AUTH_OPTIONS[1]
AUTH_TYPE_APIKEY == AUTH_OPTIONS[2]

\* What a user may type into the forms; None stands for Python's None.
None == "None"
Emails == {"e1", "e2"}
Passwords == {"p1", "p2"}
ApiKeys == {"k1", "k2"}

\* lib/octopus_spain.py:29-32: the variables of the login mutation are the
\* API key when the client has one, else the email and the password.
LoginVariables(email, password, apikey) ==
    IF apikey = None THEN [email |-> email, password |-> password, APIKey |-> None]
    ELSE [email |-> None, password |-> None, APIKey |-> apikey]

\* lib/octopus_spain.py:34-42: the credentials the API accepts, and how a
\* login with given variables can go: the answer carries a token (login
\* returns True) only for accepted credentials; it may carry errors (login
\* returns False) and the request may raise whatever was sent.
Accepted == {LoginVariables("e1", "p1", None), LoginVariables(None, None, "k1")}
LoginAnswers(variables) ==
    {"failed", "raises"} \cup (IF variables \in Accepted THEN {"ok"} ELSE {})

\* config_flow.py:80, 153-158: the handler's _cached_data (a key that is
\* missing reads as None).
CachedData(auth_type, email, password, apikey) ==
    [auth_type |-> auth_type, email |-> email, password |-> password, apikey |-> apikey]
EmptyCache == CachedData(None, None, None, None)

\* history: the login a step made: what the user entered in the step, the
\* variables login sent, and how it went.
NoAttempt == [made |-> FALSE]
Attempt(input, variables, result) ==
    [made |-> TRUE, input |-> input, variables |-> variables, result |-> result]

\* A flow handler showing the form of a step.
Handler(kind, step, cached_data) ==
    [kind |-> kind, step |-> step, errors |-> "none", cached_data |-> cached_data,
     attempt |-> NoAttempt, rejected |-> FALSE]

\* config_entries: a created entry holds the data, no options.
NewEntry(data) == [data |-> data, options |-> <<>>]
\* config_flow.py:152, __init__.py:18: {**entry.data, **entry.options}; the
\* options the flow saves carry all four keys.
EntryData(e) == IF e.options = <<>> THEN e.data ELSE e.options

\* (a variant of the test below that takes any answer for a success)
LoginReturned(result) == result # "raises"

\* config_flow.py:134, 203: if await api.login().
LoginTrue(result) == result = "ok"

\* config_flow.py:127-147, 196-216  _validate_and_create_entry and
\* _validate_and_save: the handler after the login with the cached
\* credentials.  When login returns True the flow ends, when it returns
\* False the form of the step is shown with invalid_auth, and when it raises
\* the exception leaves the step and the form on screen stays.
Validated(f, input, result) ==
    LET c == f.cached_data
        a == Attempt(input, LoginVariables(c.email, c.password, c.apikey), result)
    IN  IF LoginTrue(result)
        THEN [f EXCEPT !.step = "done", !.errors = "none", !.attempt = a]
        ELSE IF result = "raises" THEN [f EXCEPT !.attempt = a]
        ELSE [f EXCEPT !.errors = "invalid_auth", !.attempt = a, !.rejected = TRUE]

\* config_flow.py:135-141  async_create_entry(data=data, title="Octopus Spain").
ValidateAndCreateEntry(f, input, result) ==
    /\ flow' = Validated(f, input, result)
    /\ entry' = IF LoginTrue(result) THEN NewEntry(f.cached_data) ELSE entry

\* config_flow.py:204-210  async_create_entry(title="", data=data): the
\* options of the entry.
ValidateAndSave(f, input, result) ==
    /\ flow' = Validated(f, input, result)
    /\ entry' = IF LoginTrue(result) THEN [entry EXCEPT !.options = f.cached_data]
                ELSE entry

StepOf(auth_type) == IF auth_type = AUTH_TYPE_APIKEY THEN "apikey" ELSE "credentials"

\* config_flow.py:78-80, 87-92: a configuration flow starts; its handler
\* shows the form of step user.
ConfigFlowInit ==
    /\ entry = <<>>
    /\ flow' = Handler("config", "user", EmptyCache)
    /\ UNCHANGED entry

\* config_flow.py:94-99, 105-106, 119-120  async_step_user with the chosen
\* authentication: shows the form of its step.
ConfigAsyncStepUser(auth_type) ==
    /\ flow.kind = "config" /\ flow.step = "user"
    /\ flow' = Handler("config", StepOf(auth_type),
                       [flow.cached_data EXCEPT !.auth_type = auth_type])
    /\ UNCHANGED entry

\* config_flow.py:101-112  async_step_apikey with the form's input.
ConfigAsyncStepApikey(apikey, result) ==
    /\ flow.kind = "config" /\ flow.step = "apikey"
    /\ LET f == [flow EXCEPT !.cached_data.apikey = apikey]
       IN  /\ result \in LoginAnswers(LoginVariables(f.cached_data.email,
                                          f.cached_data.password, f.cached_data.apikey))
           /\ ValidateAndCreateEntry(f, CachedData(None, None, None, apikey), result)

\* config_flow.py:114-125  async_step_credentials with the form's input.
ConfigAsyncStepCredentials(email, password, result) ==
    /\ flow.kind = "config" /\ flow.step = "credentials"
    /\ LET f == [flow EXCEPT !.cached_data.email = email,
                             !.cached_data.password = password,
                             !.cached_data.apikey = None]
       IN  /\ result \in LoginAnswers(LoginVariables(f.cached_data.email,
                                          f.cached_data.password, f.cached_data.apikey))
           /\ ValidateAndCreateEntry(f, CachedData(None, email, password, None), result)

\* config_flow.py:151-158, 160-164: an options flow starts for the entry; its
\* handler shows the form of step init.
OptionsFlowInit ==
    /\ entry # <<>>
    /\ flow' = Handler("options", "init", EntryData(entry))
    /\ UNCHANGED entry

\* config_flow.py:166-171, 176-177, 188-189  async_step_init with the chosen
\* authentication.
OptionsAsyncStepInit(auth_type) ==
    /\ flow.kind = "options" /\ flow.step = "init"
    /\ flow' = Handler("options", StepOf(auth_type),
                       [flow.cached_data EXCEPT !.auth_type = auth_type])
    /\ UNCHANGED entry

\* config_flow.py:173-182  async_step_apikey with the form's input.
OptionsAsyncStepApikey(apikey, result) ==
    /\ flow.kind = "options" /\ flow.step = "apikey"
    /\ LET f == [flow EXCEPT !.cached_data.apikey = apikey,
                             !.cached_data.email = None,
                             !.cached_data.password = None]
       IN  /\ result \in LoginAnswers(LoginVariables(f.cached_data.email,
                                          f.cached_data.password, f.cached_data.apikey))
           /\ ValidateAndSave(f, CachedData(None, None, None, apikey), result)

\* config_flow.py:184-194  async_step_credentials with the form's input.
OptionsAsyncStepCredentials(email, password, result) ==
    /\ flow.kind = "options" /\ flow.step = "credentials"
    /\ LET f == [flow EXCEPT !.cached_data.email = email,
                             !.cached_data.password = password,
                             !.cached_data.apikey = None]
       IN  /\ result \in LoginAnswers(LoginVariables(f.cached_data.email,
                                          f.cached_data.password, f.cached_data.apikey))
           /\ ValidateAndSave(f, CachedData(None, email, password, None), result)

\* The flows of one entry: the configuration flow that creates it, options
\* flows afterwards; a new flow may start whenever, whatever the user
\* enters, however the logins go.
InitFlow ==
    /\ today = 1 + WindowBack
    /\ polls = 0
    /\ upstream = [d \in Days |-> <<>>]
    /\ coordData = <<>>
    /\ listener = "none"
    /\ tasks = NoTasks
    /\ store = {}
    /\ journal = <<>>
    /\ OneAccount
    /\ ApiUnused
    /\ FlowUnused

NextFlow ==
    \/ ConfigFlowInit /\ UNCHANGED <<importerVars, accountVars, apiVars>>
    \/ \E auth_type \in {AUTH_TYPE_CREDENTIALS, AUTH_TYPE_APIKEY} :
           ConfigAsyncStepUser(auth_type) /\ UNCHANGED <<importerVars, accountVars, apiVars>>
    \/ \E apikey \in ApiKeys : \E result \in {"ok", "failed", "raises"} :
           ConfigAsyncStepApikey(apikey, result)
               /\ UNCHANGED <<importerVars, accountVars, apiVars>>
    \/ \E email \in Emails : \E password \in Passwords :
       \E result \in {"ok", "failed", "raises"} :
           ConfigAsyncStepCredentials(email, password, result)
               /\ UNCHANGED <<importerVars, accountVars, apiVars>>
    \/ OptionsFlowInit /\ UNCHANGED <<importerVars, accountVars, apiVars>>
    \/ \E auth_type \in {AUTH_TYPE_CREDENTIALS, AUTH_TYPE_APIKEY} :
           OptionsAsyncStepInit(auth_type) /\ UNCHANGED <<importerVars, accountVars, apiVars>>
    \/ \E apikey \in ApiKeys : \E result \in {"ok", "failed", "raises"} :
           OptionsAsyncStepApikey(apikey, result)
               /\ UNCHANGED <<importerVars, accountVars, apiVars>>
    \/ \E email \in Emails : \E password \in Passwords :
       \E result \in {"ok", "failed", "raises"} :
           OptionsAsyncStepCredentials(email, password, result)
               /\ UNCHANGED <<importerVars, accountVars, apiVars>>

SpecFlow == InitFlow /\ [][NextFlow]_vars

\* ------------------------------------------------------ reading a cycle
\* The cycles in sight: the coroutines that are alive and the journal's.
Cycles == {tasks[t] : t \in Tasks} \cup {journal[i] : i \in 1..Len(journal)}

\* Cycle c got its checkpoint and went through the loop of lines 291-315.
Aggregated(c) ==
    /\ c.pc \in {"commit", "done"}
    /\ c.measurements # <<>>
    /\ c.error \notin {"read", "parse"}

\* A record as the spec reads it: its start instant when startAt is a
\* timestamp, its number when value is one.
HasInstant(m) == m.startAt.kind = "iso"
InstantOf(m) == m.startAt.local - m.startAt.off
HasNumber(m) == m.value.k = "num"
NumberOf(m) == m.value.v

\* The indices of the measurements of cycle c that lie behind its cursor.
NewIndices(c) ==
    {i \in 1..Len(c.measurements) :
        /\ HasInstant(c.measurements[i])
        /\ \/ c.last_start = NoStart
           \/ InstantOf(c.measurements[i]) > c.last_start[1]}

RECURSIVE SumOfValues(_, _)
SumOfValues(ms, I) ==
    IF I = {} THEN 0
    ELSE LET i == CHOOSE j \in I : TRUE
         IN  NumberOf(ms[i]) + SumOfValues(ms, I \ {i})

\* ------------------------------------------------------------------ C2
\* The new measurements of cycle c whose value is a number.
NewValid(c) == {i \in NewIndices(c) : HasNumber(c.measurements[i])}

\* C2 (dedup correctness): in a cycle whose checkpoint has lastStart = T, no
\* point of the commit list starts at or before T, the running sum grows by
\* exactly the values of the measurements that start after T, and when a
\* single measurement starts after T, with value v, the commit list is the
\* one point (its start, checkpoint sum + v).
C2_DedupCorrect ==
    \A c \in Cycles :
        (Aggregated(c) /\ c.last_start # NoStart) =>
            LET T == c.last_start[1]
                ms == c.measurements
            IN  /\ \A i \in 1..Len(c.statistics) : c.statistics[i].start > T
                /\ c.running_sum = c.last_sum + SumOfValues(ms, NewValid(c))
                /\ \A i \in NewValid(c) :
                       NewIndices(c) = {i} =>
                           c.statistics =
                               <<[start |-> InstantOf(ms[i]),
                                  state |-> c.last_sum + NumberOf(ms[i]),
                                  sum |-> c.last_sum + NumberOf(ms[i])]>>

\* A cycle with cursor T that met a measurement starting exactly at T and a
\* single one behind it, and waits to commit.
C2_Witness ==
    \E c \in Cycles :
        /\ Aggregated(c)
        /\ c.pc = "commit"
        /\ c.last_start # NoStart
        /\ \E i, j \in 1..Len(c.measurements) :
              /\ HasInstant(c.measurements[i])
              /\ HasNumber(c.measurements[i])
              /\ NumberOf(c.measurements[i]) # 0
              /\ InstantOf(c.measurements[i]) = c.last_start[1]
              /\ NewValid(c) = {j}
              /\ NewIndices(c) = {j}
              /\ NumberOf(c.measurements[j]) # 0

\* ------------------------------------------------------------------ C5
\* C5 (monotonicity of a commit list): in every commit list the cumulative
\* value does not decrease from one point to the next, and the final
\* running sum is at least the running sum of the checkpoint.
C5_CommitListMonotone ==
    \A c \in Cycles :
        Aggregated(c) =>
            /\ \A i, j \in 1..Len(c.statistics) :
                   i < j => c.statistics[i].sum <= c.statistics[j].sum
            /\ c.running_sum >= c.last_sum

\* ------------------------------------------------------------------ C6
\* C6 (strictly increasing starts): in every batch handed to the store the
\* starts of consecutive points increase strictly.
C6_StartsStrictlyIncrease ==
    \A c \in Cycles :
        Aggregated(c) =>
            \A i, j \in 1..Len(c.statistics) :
                i < j => c.statistics[i].start < c.statistics[j].start

\* ------------------------------------------------------------------ C8
\* The records of cycle c with no start instant, and the new ones with no
\* number.
Unparsed(c) == {i \in 1..Len(c.measurements) : ~HasInstant(c.measurements[i])}
NewInvalid(c) == NewIndices(c) \ NewValid(c)

\* C8 (malformed record tolerance): a cycle that got its checkpoint ends
\* without an exception of its own; every record without a start instant and
\* every new record without a number is dropped and counted; every other new
\* record gives one point of the commit list.
C8_MalformedTolerated ==
    \A c \in Cycles :
        (/\ c.pc \in {"commit", "done"}
         /\ c.measurements # <<>>
         /\ c.error # "read") =>
            /\ c.error # "parse"
            /\ c.skip_unparsed = Cardinality(Unparsed(c))
            /\ c.skipped_invalid_value = Cardinality(NewInvalid(c))
            /\ Len(c.statistics) = Cardinality(NewValid(c))

\* ------------------------------------------------------------------ C9
\* The new valid records of cycle c that no later-seen record of the same
\* start instant supersedes.
LastSeen(c) ==
    {i \in NewValid(c) :
        \A j \in NewIndices(c) :
            InstantOf(c.measurements[j]) = InstantOf(c.measurements[i]) => j <= i}
NewInstants(c) == {InstantOf(c.measurements[i]) : i \in NewIndices(c)}

\* C9 (last-write-wins): when every new record of a cycle is valid, the
\* commit list holds one point per start instant, and the running sum grows
\* by the value of the later-seen record of each start instant only.
C9_LastWriteWins ==
    \A c \in Cycles :
        (Aggregated(c) /\ NewInvalid(c) = {}) =>
            /\ Len(c.statistics) = Cardinality(NewInstants(c))
            /\ c.running_sum = c.last_sum + SumOfValues(c.measurements, LastSeen(c))

\* ----------------------------------------------------------------- C10
\* Every record of the list has a start instant and a number.
AllValid(ms) == \A i \in 1..Len(ms) : HasInstant(ms[i]) /\ HasNumber(ms[i])

\* The indices of ms in ascending start order, records of one start in
\* their order of arrival.
AscendingOrder(ms) ==
    CHOOSE p \in [1..Len(ms) -> 1..Len(ms)] :
        \A i, j \in 1..Len(ms) :
            i < j =>
                \/ InstantOf(ms[p[i]]) < InstantOf(ms[p[j]])
                \/ InstantOf(ms[p[i]]) = InstantOf(ms[p[j]]) /\ p[i] < p[j]

\* The prefix sums of the values of ms in ascending start order.
PrefixSums(ms) ==
    LET p == AscendingOrder(ms)
    IN  [i \in 1..Len(ms) |->
            LET total == SumOfValues(ms, {p[k] : k \in 1..i})
            IN  [start |-> InstantOf(ms[p[i]]), state |-> total, sum |-> total]]

\* C10 (cold start): when the store holds no point for the series the
\* checkpoint is (none, 0), and for a valid input in any order the commit
\* list is the list of prefix sums of the values in ascending start order,
\* one point per measurement.
C10_ColdStart ==
    \A c \in Cycles :
        (/\ c.pc \in {"commit", "done"}
         /\ c.measurements # <<>>
         /\ c.error # "read"
         /\ c.last_points = <<>>) =>
            /\ c.last_start = NoStart
            /\ c.last_sum = 0
            /\ AllValid(c.measurements) => c.statistics = PrefixSums(c.measurements)

\* A cold-start cycle over two valid measurements that arrived latest first.
C10_Witness ==
    \E c \in Cycles :
        /\ c.pc = "commit"
        /\ c.last_points = <<>>
        /\ Len(c.measurements) = 2
        /\ AllValid(c.measurements)
        /\ InstantOf(c.measurements[1]) > InstantOf(c.measurements[2])
        /\ NumberOf(c.measurements[1]) # NumberOf(c.measurements[2])
        /\ Len(c.statistics) = 2

\* ------------------------------------------------------------------ C3
\* C3 (per-series serialization): no two cycles of the series have both
\* read the checkpoint while neither has finished its commit.
C3_CyclesSerialized ==
    \A a, b \in Tasks :
        a # b => ~(tasks[a].pc = "commit" /\ tasks[b].pc = "commit")

\* ------------------------------------------------------------------ C4
\* C4 (the counter never regresses): the stored points of the series have
\* cumulative values that do not decrease in start order.
C4_StoreNeverRegresses ==
    \A r, q \in store :
        (r.start <= q.start /\ r.sum.k = "num" /\ q.sum.k = "num") => r.sum.v <= q.sum.v

Union(first, second) ==
    first \o SelectSeq(second,
                 LAMBDA m : \A i \in 1..Len(first) : InstantOf(first[i]) # InstantOf(m))

\* The cumulative total of the series: the sum of its latest row.
StoreTotal(st) == IF st = {} THEN 0 ELSE LastSumOf(GetLastStatistics(st)[1])

StartsOf(statistics) == {statistics[i].start : i \in 1..Len(statistics)}

\* The last two cycles of the journal, run one after the other.
Earlier == journal[Len(journal) - 1]
Later == journal[Len(journal)]
TwoCycles ==
    /\ Len(journal) >= 2
    /\ Earlier.error = "none" /\ Earlier.measurements # <<>>
    /\ Later.error = "none" /\ Later.measurements # <<>>

\* C1 (overlap resilience): after a cycle on one window and a later cycle on
\* an overlapping window, each reading the checkpoint from the store, the
\* store's cumulative total is the running sum a single cycle over the union
\* of the two windows reaches from the first checkpoint, and no start is in
\* both commit lists.
C1_OverlapResilience ==
    TwoCycles =>
        /\ StoreTotal(store) =
               ProcessMeasurements(Union(Earlier.measurements, Later.measurements),
                                   Earlier.last_points).running_sum
        /\ StartsOf(Earlier.statistics) \cap StartsOf(Later.statistics) = {}

\* ----------------------------------------------------------------- C11
\* Cycle c has a cursor and every record of its list starts at or before it.
NothingNew(c) ==
    /\ Aggregated(c)
    /\ c.last_start # NoStart
    /\ \A i \in 1..Len(c.measurements) :
           /\ HasInstant(c.measurements[i])
           /\ InstantOf(c.measurements[i]) <= c.last_start[1]

\* C11 (empty-cycle safety): a cycle whose checkpoint is (T, S) and whose
\* measurements all start at or before T prepares no point, never waits for
\* a commit, ends with running sum S, and leaves the row it read as the last
\* row of the store.
C11_EmptyCycleSafe ==
    \A c \in Cycles :
        NothingNew(c) =>
            /\ c.statistics = <<>>
            /\ c.pc = "done"
            /\ c.running_sum = c.last_sum
            /\ c.running_sum = StoreTotal(store)
            /\ GetLastStatistics(store) = c.last_points

\* A finished cycle that found the sum 3 at its cursor and two records, one
\* at the cursor and one before it.
C11_Witness ==
    \E c \in Cycles :
        /\ NothingNew(c)
        /\ c.pc = "done"
        /\ c.last_sum = 3
        /\ Len(c.measurements) = 2
        /\ \E i, j \in 1..2 :
               /\ InstantOf(c.measurements[i]) = c.last_start[1]
               /\ InstantOf(c.measurements[j]) < c.last_start[1]
               /\ HasNumber(c.measurements[i]) /\ NumberOf(c.measurements[i]) > 0

\* ----------------------------------------------------------------- C12
\* The last cycle of the journal ended in the exception of the read.
ReadFailed == Len(journal) >= 1 /\ Later.error = "read"

\* C12 (checkpoint read failure): a cycle whose read of the last stored point
\* raised prepares nothing from a made-up checkpoint and never waits for a
\* commit; the step that ends it leaves the store as it was; the importer
\* stays subscribed, so the next notification starts a cycle.
C12_ReadFailureSkips ==
    /\ [](\A c \in Cycles :
              c.error = "read" =>
                  /\ c.pc = "done"
                  /\ c.statistics = <<>>
                  /\ c.last_points = <<>>
                  /\ c.running_sum = 0)
    /\ [](ReadFailed /\ NoCycleRunning => listener = "added")
    /\ [][(\E t \in Tasks :
              /\ tasks[t].pc = "read"
              /\ tasks'[t].pc = "idle"
              /\ Len(journal') >= 1
              /\ journal'[Len(journal')].error = "read"
              /\ journal'[Len(journal')].measurements = tasks[t].measurements)
          => store' = store]_vars

\* A cycle failed on its read over a store that holds a row; the next
\* notification has started a cycle on the same data.
C12_Witness ==
    /\ ReadFailed
    /\ store # {}
    /\ \E t \in Tasks : tasks[t].pc = "read" /\ tasks[t].measurements = Later.measurements

\* ----------------------------------------------------------------- C13
\* The row a cycle got as its last stored point; what the row gives as its
\* cumulative value (sum, else state); whether its start is a timestamp.
HasLastPoint(c) ==
    /\ c.pc \in {"commit", "done"}
    /\ c.measurements # <<>>
    /\ c.error # "read"
    /\ c.last_points # <<>>
LastPoint(c) == c.last_points[Len(c.last_points)]
CumulativeOf(row) == IF row.sum.k = "none" THEN row.state ELSE row.sum
ValidStart(row) == row.raw.kind \in {"ts", "iso", "naive", "aware"}

\* C13 as stated (checkpoint with absent or unparseable value): when the
\* cumulative value of the last point is absent or no number the running sum
\* of the checkpoint is 0, and lastStart is the point's start when that is a
\* timestamp and none only otherwise.
C13_CursorKept ==
    \A c \in Cycles :
        (HasLastPoint(c) /\ CumulativeOf(LastPoint(c)).k # "num") =>
            /\ c.last_sum = 0
            /\ ValidStart(LastPoint(c)) => c.last_start = SomeStart(LastPoint(c).start)
            /\ ~ValidStart(LastPoint(c)) => c.last_start = NoStart

\* C13 amended: when the cumulative value of the last point is no number the
\* running sum of the checkpoint is 0; lastStart is the point's start when
\* that is a timestamp and the point has a sum or a state field, and none
\* when the start is no timestamp or the point has neither field.
C13_CursorKeptUnlessBare ==
    \A c \in Cycles :
        (HasLastPoint(c) /\ CumulativeOf(LastPoint(c)).k # "num") =>
            /\ c.last_sum = 0
            /\ (ValidStart(LastPoint(c)) /\ CumulativeOf(LastPoint(c)).k = "bad")
                   => c.last_start = SomeStart(LastPoint(c).start)
            /\ (~ValidStart(LastPoint(c)) \/ CumulativeOf(LastPoint(c)).k = "none")
                   => c.last_start = NoStart

\* A cycle whose last point has an unparseable sum and an offset timestamp as
\* its start, and a record behind that start.
C13_Witness ==
    \E c \in Cycles :
        /\ HasLastPoint(c)
        /\ CumulativeOf(LastPoint(c)).k = "bad"
        /\ LastPoint(c).raw.kind \in {"iso", "aware"}
        /\ LastPoint(c).raw.off # 0
        /\ c.last_start = SomeStart(1)
        /\ c.statistics # <<>>
        /\ c.skipped_already_imported > 0

\* ----------------------------------------------------------------- C15
\* The store st once it holds the whole batch: its rows at other starts, and
\* for every start of the batch the batch's last point of that start.
WithBatch(st, statistics) ==
    {r \in st : r.start \notin StartsOf(statistics)}
    \cup {[start |-> statistics[i].start,
           raw |-> RowStart("ts", statistics[i].start, 0),
           sum |-> Num(statistics[i].sum),
           state |-> Num(statistics[i].state)] :
              i \in {k \in 1..Len(statistics) :
                        \A j \in (k + 1)..Len(statistics) :
                            statistics[j].start # statistics[k].start}}

\* C15 (atomic single-batch commit): the store changes only in a step in
\* which one cycle hands over its batch and returns; the store then holds
\* all points of the batch, which are all new valid records of the cycle.  A
\* cycle that failed before its commit has prepared nothing to write.
C15_OneBatchOrNothing ==
    /\ [][store' # store =>
             \E t \in Tasks :
                 /\ tasks[t].pc = "commit"
                 /\ tasks'[t].pc = "idle"
                 /\ Len(tasks[t].statistics) = Cardinality(NewValid(tasks[t]))
                 /\ store' = WithBatch(store, tasks[t].statistics)]_vars
    /\ [](\A c \in Cycles :
              c.error \in {"read", "parse"} => c.pc = "done" /\ c.statistics = <<>>)
    /\ [][\A t \in Tasks :
              (tasks[t].pc = "commit" /\ tasks'[t].pc = "idle"
               /\ Len(journal') >= 1 /\ journal'[Len(journal')].error = "commit")
                  => store' = store]_vars

\* A cycle that committed a batch of two points into a store that held a
\* row.
C15_Witness ==
    /\ Len(journal) >= 1
    /\ Later.error = "none"
    /\ Len(Later.statistics) = 2
    /\ Later.last_points # <<>>
    /\ Cardinality(store) >= 2
    /\ \A i \in 1..2 : \E r \in store : r.start = Later.statistics[i].start

\* ----------------------------------------------------------------- C16
\* Cycle c prepared a batch that did not reach the store: the store rejected
\* it, or the host went down while the cycle was waiting to commit.
Attempted(c) ==
    \/ c.error = "commit"
    \/ c.error = "cancelled" /\ c.statistics # <<>>

\* The recorder answered two reads in the same form.
AnswersAlike(a, b) ==
    /\ (a = <<>>) = (b = <<>>)
    /\ (a # <<>> /\ b # <<>>) => LacksSumAndState(a[1]) = LacksSumAndState(b[1])

\* C16 (recovery after a failed or interrupted cycle): a rejected commit and
\* a teardown leave the store as it was; the cycle that follows, on the same
\* measurements and with the recorder answering in the same form, reads the
\* same checkpoint from the store and prepares the batch the failed cycle
\* had prepared.
C16_RetrySameBatch ==
    /\ [][\A t \in Tasks :
              (/\ tasks[t].pc \in {"read", "commit"}
               /\ tasks'[t].pc = "idle"
               /\ Len(journal') >= 1
               /\ journal'[Len(journal')].error \in {"commit", "cancelled"})
                  => store' = store]_vars
    /\ [](Len(journal) >= 2 =>
            ((/\ Attempted(Earlier)
              /\ Later.measurements = Earlier.measurements
              /\ Later.error = "none" \/ Attempted(Later)
              /\ AnswersAlike(Later.last_points, Earlier.last_points))
                 => /\ Later.last_points = Earlier.last_points
                    /\ Later.statistics = Earlier.statistics))
    /\ [](\A t \in Tasks :
              (/\ Len(journal) >= 1
               /\ Attempted(Later)
               /\ tasks[t].pc = "commit"
               /\ tasks[t].measurements = Later.measurements
               /\ AnswersAlike(tasks[t].last_points, Later.last_points))
                  => /\ tasks[t].last_points = Later.last_points
                     /\ tasks[t].statistics = Later.statistics)

\* The host went down under a cycle that waited to commit two points over a
\* stored row; after the restart the setup cycle waits to commit.
C16_Witness ==
    /\ Len(journal) >= 1
    /\ Later.error = "cancelled"
    /\ Len(Later.statistics) = 2
    /\ Later.last_points # <<>>
    /\ ~LacksSumAndState(Later.last_points[1])
    /\ \E t \in Tasks :
           /\ tasks[t].pc = "commit"
           /\ tasks[t].measurements = Later.measurements
           /\ tasks[t].statistics = Later.statistics

\* ----------------------------------------------------------------- C18
\* The valid records of list ms whose start has no row in store st.
Unreflected(ms, st) ==
    {i \in 1..Len(ms) :
        /\ HasInstant(ms[i]) /\ HasNumber(ms[i])
        /\ \A r \in st : r.start # InstantOf(ms[i])}

\* C18 (gap-free total): after two cycles without an error, the first of
\* which found the store empty, every valid record of the second cycle's
\* list has its point in the store, also a record whose start lies before a
\* start the first cycle committed.
C18_GapFree ==
    (/\ Len(journal) >= 2
     /\ Earlier.error = "none" /\ Earlier.last_points = <<>>
     /\ Later.error = "none")
        => Unreflected(Later.measurements, store) = {}

\* ----------------------------------------------------------------- C19
\* C19 (empty input): a cycle on an empty measurement list returns at once
\* with no batch, without asking the store and without writing to it.
C19_EmptyInputNoEffect ==
    /\ [](\A c \in Cycles :
              c.measurements = <<>> =>
                  /\ c.pc \in {"idle", "done"}
                  /\ c.statistics = <<>>
                  /\ c.last_points = <<>>
                  /\ c.error = "none")
    /\ [][(/\ Len(journal') >= 1
           /\ journal' # journal
           /\ journal'[Len(journal')].measurements = <<>>) => store' = store]_vars

\* A cycle on an empty list has returned over a store that holds a row.
C19_Witness ==
    /\ Len(journal) >= 1
    /\ Later.measurements = <<>>
    /\ Later.pc = "done"
    /\ store # {}
    /\ listener = "added"

\* ----------------------------------------------------------------- C20
\* The slots in which a coroutine was created in the step.
Started == {t \in Tasks : tasks[t].pc = "idle" /\ tasks'[t].pc # "idle"}

\* The step adds one coroutine, which has taken list data and run up to its
\* first await, and leaves the others alone.
StartsOneCycleOn(data) ==
    \E t \in Tasks :
        /\ tasks[t].pc = "idle"
        /\ tasks' = [tasks EXCEPT ![t] = Alive(StartCycle(data))]

\* C20 (trigger lifecycle): async_setup starts one cycle, on the data the
\* coordinator holds; while the importer is subscribed every refresh starts
\* one cycle on the refreshed data; no other step starts a cycle, and once
\* close() has run the importer stays unsubscribed and no cycle starts.
C20_TriggerLifecycle ==
    /\ [][(listener = "none" /\ listener' # "none") => StartsOneCycleOn(coordData)]_vars
    /\ [][(listener = "added" /\ polls' # polls) =>
              /\ StartsOneCycleOn(coordData')
              /\ Cardinality(Started) = 1]_vars
    /\ [][Started # {} =>
              \/ listener = "none" /\ listener' # "none"
              \/ listener = "added" /\ polls' # polls]_vars
    /\ [][listener = "removed" => (listener' = "removed" /\ Started = {})]_vars

\* The importer is closed, every refresh the bound allows has run, no
\* cycle is left, and the coordinator holds a record later than every
\* stored point.
C20_Witness ==
    /\ listener = "removed"
    /\ polls = MaxPolls
    /\ NoCycleRunning
    /\ store # {}
    /\ \E i \in 1..Len(coordData) :
           /\ HasInstant(coordData[i])
           /\ \A r \in store : r.start < InstantOf(coordData[i])

\* ----------------------------------------------------------------- C14
\* What a refresh at the given day fetches for an account that answers.
FreshEntry(day) == Entry(FetchDays(day - WindowBack, day, (day - WindowBack)..day))

\* The accounts for which a call of the last refresh failed.
FailedAccounts ==
    {a \in Accounts : lastRefresh.outcome.account[a] \in {"account_raises", "hourly_raises"}}

\* C14 (per-series isolation): after a refresh that logged in and got the
\* list of accounts, every account whose own calls answer has its freshly
\* fetched window in coordinator.data, whatever happened to other accounts.
C14_AccountsIsolated ==
    (/\ lastRefresh.outcome.login = "ok"
     /\ lastRefresh.outcome.accounts = "ok"
     /\ FailedAccounts # {})
        => \A b \in Accounts \ FailedAccounts :
               lastRefresh.outcome.account[b] = "ok"
                   => accountsData[b] = FreshEntry(lastRefresh.day)

\* ----------------------------------------------------------------- C17
\* A fetch of hourly measurements of the last refresh failed: the login
\* failed, or hourly_consumption got an error answer or a transport error for
\* an account the refresh reached.
Reached(a) == \A b \in 1..(a - 1) : b \notin FailedAccounts

FetchFailed ==
    \/ lastRefresh.outcome.login \in {"failed", "raises"}
    \/ /\ lastRefresh.outcome.login = "ok"
       /\ lastRefresh.outcome.accounts = "ok"
       /\ \E a \in Accounts :
              Reached(a) /\ lastRefresh.outcome.account[a] \in {"no_data", "hourly_raises"}

\* C17 (transient fetch failure): a refresh in which a fetch failed does
\* not raise, and an account whose fetch got no answer has an empty list in
\* coordinator.data.
C17_FetchFailureIsNoData ==
    FetchFailed =>
        /\ ~lastRefresh.raised
        /\ \A a \in Accounts :
               (/\ lastRefresh.outcome.login = "ok"
                /\ lastRefresh.outcome.account[a] \in {"no_data", "hourly_raises"})
                   => accountsData[a] = Entry(<<>>)

\* ----------------------------------------------------------------- C21
\* The records of a list with a start instant and a number.
ValidIndices(ms) == {i \in 1..Len(ms) : HasInstant(ms[i]) /\ HasNumber(ms[i])}

\* The last point a cycle got has neither a sum nor a state.
BarePoint(c) ==
    /\ HasLastPoint(c)
    /\ LastPoint(c).sum.k = "none"
    /\ LastPoint(c).state.k = "none"

\* C21 (checkpoint lacking both sum and state): a cycle whose last stored
\* point has neither field has no cursor and starts from 0, whatever the
\* start of the point is; unless it ends with an exception it skips nothing
\* as already imported, makes a point of every valid record of its list, and
\* its running sum is the sum of their values.
C21_BarePointResets ==
    \A c \in Cycles :
        BarePoint(c) =>
            /\ c.last_start = NoStart
            /\ c.last_sum = 0
            /\ c.error # "parse" =>
                   /\ c.skipped_already_imported = 0
                   /\ Len(c.statistics) = Cardinality(ValidIndices(c.measurements))
                   /\ c.running_sum = SumOfValues(c.measurements, ValidIndices(c.measurements))

\* A cycle got a point with a timestamp and no value, at or after the start
\* of one of its records, and made points of two records.
C21_Witness ==
    \E c \in Cycles :
        /\ BarePoint(c)
        /\ ValidStart(LastPoint(c))
        /\ c.error = "none"
        /\ Len(c.statistics) = 2
        /\ \E i \in 1..Len(c.measurements) :
               /\ HasInstant(c.measurements[i])
               /\ InstantOf(c.measurements[i]) <= LastPoint(c).start

\* ----------------------------------------------------------------- C22
\* The records of a list with value 0.
ZeroValued(ms) == {i \in 1..Len(ms) : HasInstant(ms[i]) /\ ms[i].value = Num(0)}

\* The cumulative value before point k of a batch that started from last_sum.
SumBefore(c, k) == IF k = 1 THEN c.last_sum ELSE c.statistics[k - 1].sum

\* Every new record of cycle c with value 0 has a point at its start whose
\* cumulative value is the running sum before it.
ZeroMakesPoint(c) ==
    \A i \in NewIndices(c) \cap ZeroValued(c.measurements) :
        \E k \in 1..Len(c.statistics) :
            /\ c.statistics[k].start = InstantOf(c.measurements[i])
            /\ c.statistics[k].sum = SumBefore(c, k)

\* The rows of the store as the importer writes them: a timestamp and the
\* running sum as sum and state.
Committed(r) == r.raw = RowStart("ts", r.start, 0) /\ r.sum.k = "num" /\ r.state = r.sum

\* C22 (zero-valued measurement): a new record with value 0 makes a point
\* that carries the running sum before it; and when the latest row of the
\* store is a point the importer committed, a cycle that has read the
\* checkpoint makes no point for a record of value 0 at the start of that
\* row.
C22_ZeroValued ==
    /\ \A c \in Cycles : (Aggregated(c) /\ c.error = "none") => ZeroMakesPoint(c)
    /\ \A t \in Tasks :
           (/\ tasks[t].pc = "commit"
            /\ store # {}
            /\ Committed(GetLastStatistics(store)[1]))
               => \A i \in ZeroValued(tasks[t].measurements) :
                      InstantOf(tasks[t].measurements[i]) = GetLastStatistics(store)[1].start
                          => \A k \in 1..Len(tasks[t].statistics) :
                                 tasks[t].statistics[k].start # GetLastStatistics(store)[1].start

\* ----------------------------------------------------------------- C23
\* The list of cycle c has been parsed: no record made the parse loop raise
\* and the records without a start instant have been counted.
Normalized(c) ==
    /\ \A i \in 1..Len(c.measurements) : c.measurements[i].startAt # Null
    /\ c.skip_unparsed = Cardinality(Unparsed(c))

\* C23 as stated (stage order): a cycle that waits for the checkpoint has
\* parsed its list, and a cycle that waits to commit has aggregated it.
C23_NormalizedBeforeLookup ==
    \A t \in Tasks :
        /\ tasks[t].pc = "read" => Normalized(tasks[t])
        /\ tasks[t].pc = "commit" => (Normalized(tasks[t]) /\ tasks[t].statistics # <<>>)

\* The stage changes of a coroutine.
StageChanges ==
    {<<"idle", "read">>, <<"read", "commit">>, <<"read", "idle">>, <<"commit", "idle">>}

\* C23 amended: a cycle goes from idle to the checkpoint lookup, from there
\* to the commit or back to idle, and from the commit back to idle; while it
\* waits for the checkpoint it has parsed and aggregated nothing; when it
\* waits to commit, or has returned without an exception, its list is parsed
\* and its batch is what it commits; a cycle that the parse loop ended had
\* read the checkpoint before.
C23_LookupBeforeNormalizing ==
    /\ [][\A t \in Tasks :
              tasks'[t].pc # tasks[t].pc => <<tasks[t].pc, tasks'[t].pc>> \in StageChanges]_vars
    /\ [](\A t \in Tasks :
              tasks[t].pc = "read" =>
                  /\ tasks[t].skip_unparsed = 0
                  /\ tasks[t].statistics = <<>>
                  /\ tasks[t].last_points = <<>>)
    /\ [](\A c \in Cycles :
              /\ Aggregated(c) => Normalized(c)
              /\ c.pc = "commit" => c.statistics # <<>>
              /\ (c.error = "parse" /\ store # {}) => c.last_points # <<>>)

\* A cycle has gone through every stage: it read a stored point, counted a
\* record it could not parse, and committed a point.
C23_Witness ==
    /\ Len(journal) >= 1
    /\ Later.error = "none"
    /\ Later.last_points # <<>>
    /\ Later.skip_unparsed = 1
    /\ Later.statistics # <<>>
    /\ \E r \in store : r.start = Later.statistics[1].start /\ r.sum = Num(Later.statistics[1].sum)

\* ----------------------------------------------------------------- C24
\* The instants of the bounds of the last call, and whether its window is
\* empty or backwards.
CallStart ==
    IF lastCall.start.kind = "none" THEN lastCall.now - DefaultBack
    ELSE IF lastCall.start.kind = "naive" THEN lastCall.start.local
    ELSE lastCall.start.local - lastCall.start.off
CallEnd ==
    IF lastCall.end.kind = "none" THEN lastCall.now + 1
    ELSE IF lastCall.end.kind = "naive" THEN lastCall.end.local
    ELSE lastCall.end.local - lastCall.end.off
InvalidCall == lastCall.made /\ CallStart >= CallEnd

\* The measurement requests of the last call.
Queries ==
    {i \in 1..Len(lastCall.requests) : lastCall.requests[i].query = "getMeasurements"}

\* C24 as stated (invalid fetch window): a call with start >= end sends no
\* request and returns the empty list.
C24_InvalidWindowNoRequest ==
    InvalidCall =>
        /\ lastCall.requests = <<>>
        /\ lastCall.ended = "returned"
        /\ lastCall.result = <<>>

\* C24 amended: a call with start >= end sends no measurements request; on
\* a client with a token it sends nothing and returns the empty list; on a
\* client without one it sends the login request only, and returns the empty
\* list unless the login raises.  A measurements request is for the window
\* as given, start before end.
C24_InvalidWindowNoQuery ==
    /\ InvalidCall =>
           /\ Queries = {}
           /\ lastCall.had_token =>
                  (lastCall.requests = <<>> /\ lastCall.ended = "returned"
                   /\ lastCall.result = <<>>)
           /\ ~lastCall.had_token =>
                  /\ Len(lastCall.requests) = 1
                  /\ lastCall.login # "raises" =>
                         (lastCall.ended = "returned" /\ lastCall.result = <<>>)
                  /\ lastCall.login = "raises" => lastCall.ended = "raised"
    /\ lastCall.made =>
           \A i \in Queries :
               /\ lastCall.requests[i].startAt = CallStart
               /\ lastCall.requests[i].endAt = CallEnd
               /\ CallStart < CallEnd

\* A call on a client with a token whose bounds are in order as written but
\* not as instants: nothing was sent.
C24_Witness ==
    /\ InvalidCall
    /\ lastCall.had_token
    /\ lastCall.start.kind = "naive" /\ lastCall.end.kind = "aware"
    /\ lastCall.start.local < lastCall.end.local
    /\ lastCall.requests = <<>>
    /\ lastCall.result = <<>>

\* ----------------------------------------------------------------- C25
\* C25 (cursor and sum are taken together): a cycle that starts its running
\* sum from a number it read as the sum or state of the last stored point
\* has a resume cursor.
C25_CursorWithSum ==
    \A c \in Cycles :
        (/\ HasLastPoint(c)
         /\ CumulativeOf(LastPoint(c)).k = "num"
         /\ CumulativeOf(LastPoint(c)).v # 0
         /\ c.last_sum = CumulativeOf(LastPoint(c)).v)
            => c.last_start # NoStart

\* ----------------------------------------------------------------- C26
\* C26 (published coordinator data is complete): coordinator.data has an
\* entry for every account of the most recent successful refresh.  The first
\* refresh succeeded and accounts() lists the same accounts every time it
\* answers, so these are all the accounts.
C26_PublishedComplete == \A a \in Accounts : accountsData[a].present

\* ----------------------------------------------------------------- C27
\* The login of an attempt was sent what the user entered in the step, and
\* nothing else.
SentEntered(a) ==
    a.variables = [email |-> a.input.email, password |-> a.input.password,
                   APIKey |-> a.input.apikey]

\* The step taken made a login that went as given.
LoginWent(f, result) == f.kind # "none" /\ f.attempt.made /\ f.attempt.result = result

\* C27 (configuration is saved only after a successful login): a step of
\* the configuration flow or of the options flow that creates the entry or
\* saves options made a login with the credentials entered in that step,
\* the login returned True, and what is saved logs in with these
\* credentials; a step whose login returned False shows the form of the
\* same step with the error invalid_auth and leaves the entry as it was, and
\* so does the entry stay when the login raised.
C27_SavedOnlyAfterLogin ==
    [][/\ entry' # entry =>
              /\ LoginWent(flow', "ok")
              /\ SentEntered(flow'.attempt)
              /\ flow'.attempt.variables \in Accepted
              /\ LoginVariables(EntryData(entry').email, EntryData(entry').password,
                                EntryData(entry').apikey) = flow'.attempt.variables
       /\ LoginWent(flow', "failed") =>
              /\ entry' = entry
              /\ flow'.kind = flow.kind
              /\ flow'.step = flow.step
              /\ flow'.errors = "invalid_auth"
       /\ LoginWent(flow', "raises") => entry' = entry]_vars

\* An options flow saved options after a form with invalid_auth.
C27_Witness ==
    /\ flow.kind = "options"
    /\ flow.step = "done"
    /\ flow.rejected
    /\ entry # <<>>
    /\ entry.options = flow.cached_data

=============================================================================
